---- MODULE Spec2Model ----
(***************************************************************************)
(* The data-source lifecycle of the GeoIP service: RemoteFetcher           *)
(* (internal/db/remote.go), DiskLoader (internal/db/local.go) and the      *)
(* request handler that reads the source (internal/webserver/auth.go).     *)
(*                                                                         *)
(* A reader is an identifier 1..MaxReaders, handed out in order of         *)
(* construction; 0 is the nil reader.  A done channel is an identifier     *)
(* 1..MaxStarts, the n-th Start() making channel n; 0 is the nil channel.  *)
(* Fetch cycles (fetchWithRetry) run                                       *)
(* in the worker slots: a slot is taken by the goroutine Start() spawns    *)
(* (role "loop") or by a caller of Reload() (role "reload").               *)
(*                                                                         *)
(* Specifications: Spec (either source, Start/Stop/Reload and a handler),  *)
(* SpecRetry (one Reload() at a time), SpecLoop (Start/Stop and the        *)
(* background loops), SpecLoopFair (the same under a fair scheduler),      *)
(* SpecFile (the file-backed createReader with the                         *)
(* files at DBPath), SpecCache (main with a RemoteFetcher: the             *)
(* decision cache, the evictor and ServeHTTP), SpecSize (Reload() with     *)
(* the size of the payload), SpecTar (utils.ExtractFileFromTar) and        *)
(* SpecFileRace (overlapping Reload() calls in file-backed mode) and       *)
(* SpecLocks (requests, refresh and evictor with every lock step).         *)
(***************************************************************************)
EXTENDS Integers, Sequences, FiniteSets, TLC

\* ------------------------------------------------------------------ bounds
MaxRetriesBound == 3
MaxFetches == 2
MaxRetryFetches == 4
MaxReaders == 2
MaxStarts == 2
MaxCloses == 2
MaxFileFetches == 3
MaxCacheFetches == 1
MaxRequests == 3
MaxClears == 1
SizeSpan == 2
MaxEntries == 2
MaxRaceFetches == 2
MaxLockFetches == 2
MaxEntrySize == 2

\* ------------------------------------------------------- program constants
\* BaseBackoff: time.Second, in seconds (NewRemoteFetcher)
BaseBackoff == 1
\* maxDBSize, in bytes
maxDBSize == 500 * 1024 * 1024

Workers == {1, 2}
NoWorker == 0
NilReader == 0
NilChan == 0
Readers == 1..MaxReaders
NoErr == "nil"
\* file contents: no file, a file that holds less than the download; the
\* bytes that fetch() calls download are numbered from 1
Absent == 0
Truncated == -1

\* The failures of fetch() before updateReaderState (categories 1-5)
ErrTransport == "bad response"
ErrDecode == "failed to create gzip reader"
ErrNotFound == "failed to extract GeoLite2-Country.mmdb from tar"
ErrSize == "database too large"
ErrConstruct == "failed to create maxmind reader from bytes"
\* The failure of updateReaderState (category 6)
ErrValidation == "database validation failed"
ErrClose == "close error"

DownloadErrors == {ErrTransport, ErrDecode, ErrNotFound, ErrSize, ErrConstruct}

VARIABLES
  kind,        \* which GeoIPSource main() built: "remote" or "disk"
  maxRetries,  \* RemoteFetcher.maxRetries
  reader,      \* the source's reader field (NilReader when nil)
  ready,       \* the source's ready field
  mutex,       \* the worker holding the write lock, or NoWorker
  done,        \* RemoteFetcher.done: the current channel, or NilChan
  chClosed,    \* the channels close() was called on
  closed,      \* per reader: how many times Close was called on it
  lookupOk,    \* per reader: whether Lookup(8.8.8.8) on it succeeds
  validated,   \* the readers whose sentinel lookup has succeeded
  nReaders,    \* readers constructed so far
  budget,      \* fetch() calls left before the exploration stops
  panicked,    \* the process died of a panic
  stopErr,     \* what the last Stop() returned
  loadErr,     \* what the last DiskLoader Start()/Reload() returned
  wk,          \* per worker slot: the fetchWithRetry frame
  hpc,         \* request handler: position in ServeHTTP
  held,        \* request handler: the reader GetReader() returned
  dbFile,      \* the content of the file at DBPath, or Absent
  tmpFile,     \* the content of the file at DBPath + ".tmp", or Absent
  backupFile,  \* the content of the file at DBPath + ".backup", or Absent
  dbBefore,    \* per worker: dbFile as its fetch() call found it
  allowedCodes,   \* config.Config.AllowedCodes: the keys mapped to true
  geoCache,       \* webserver.geoCache: the map ServeHTTP reads and writes
  mainGeoCache,   \* main.geoCache: the map clearCachePeriodically replaces
  cacheHits,      \* metrics.CacheHits
  cacheEvictions, \* metrics.CacheEvictions
  clears,         \* runs of the evictor so far
  requests,       \* requests that may still arrive
  rq,             \* the request being served: the frame of ServeHTTP
  archive,        \* the tar stream handed to ExtractFileFromTar
  tarResult,      \* what ExtractFileFromTar returned
  lk              \* concurrent requests: their positions and the locks held

vars == <<kind, maxRetries, reader, ready, mutex, done, chClosed, closed, lookupOk,
          validated, nReaders, budget, panicked, stopErr, loadErr, wk, hpc, held,
          dbFile, tmpFile, backupFile, dbBefore, allowedCodes, geoCache,
          mainGeoCache, cacheHits, cacheEvictions, clears, requests, rq,
          archive, tarResult, lk>>

srcVars == <<reader, ready, mutex, closed, lookupOk, validated, nReaders>>
chanVars == <<done, chClosed, panicked, stopErr>>
handlerVars == <<hpc, held>>
cfgVars == <<kind, maxRetries, allowedCodes>>
cacheVars == <<geoCache, mainGeoCache, cacheHits, cacheEvictions, clears, requests, rq>>
fileVars == <<dbFile, tmpFile, backupFile, dbBefore>>
tarVars == <<archive, tarResult>>
lockVars == <<lk>>

\* ---------------------------------------------------------------- helpers

\* errors.Wrap(err, msg) of github.com/pkg/errors: nil when err is nil
Wrap(err, msg) ==
  IF err = NoErr THEN NoErr ELSE msg \o ": " \o err

FreeFrame ==
  [role |-> "none", pc |-> "free", i |-> 0, err |-> NoErr, new |-> NilReader,
   result |-> "pending", log |-> <<>>, delays |-> <<>>, prevClosed |-> NilReader,
   ch |-> NilChan, closeErr |-> NoErr, size |-> 0, out |-> "none",
   opened |-> "none", rewritten |-> FALSE]

\* the frame of a fetchWithRetry call that has just been entered: var err error
CycleFrame(role) ==
  [FreeFrame EXCEPT !.role = role, !.pc = "cycle"]

FreeSlots == {w \in Workers : wk[w].pc = "free"}

LeastFree == CHOOSE w \in FreeSlots : \A v \in FreeSlots : w <= v

CloseReader(c, r) ==
  IF r = NilReader THEN c ELSE [c EXCEPT ![r] = @ + 1]

\* IsReady() of the source main() built
RemoteIsReady == ready /\ reader /= NilReader

DiskIsReady == ready

IsReady == IF kind = "remote" THEN RemoteIsReady ELSE DiskIsReady

\* GetReader()
GetReader == reader

\* make(map[string]cacheEntry)
EmptyMap == [k \in {} |-> FALSE]

\* no request is being served
NoRequest ==
  [pc |-> "none", ip |-> "", wasReady |-> FALSE, steps |-> <<>>, code |-> "",
   iso |-> "", status |-> 0, country |-> ""]

\* the state after NewRemoteFetcher(cfg) or NewDiskLoader(path), and of the
\* package variables of main and webserver
SourceConstructed ==
  /\ reader = NilReader
  /\ ready = FALSE
  /\ mutex = NoWorker
  /\ done = NilChan
  /\ chClosed = {}
  /\ closed = [r \in Readers |-> 0]
  /\ lookupOk = [r \in Readers |-> FALSE]
  /\ validated = {}
  /\ nReaders = 0
  /\ panicked = FALSE
  /\ stopErr = "pending"
  /\ loadErr = "pending"
  /\ wk = [w \in Workers |-> FreeFrame]
  /\ hpc = "idle"
  /\ held = NilReader
  /\ tmpFile = Absent
  /\ backupFile = Absent
  /\ dbBefore = [w \in Workers |-> Absent]
  /\ geoCache = EmptyMap
  /\ mainGeoCache = EmptyMap
  /\ cacheHits = 0
  /\ cacheEvictions = 0
  /\ clears = 0
  /\ rq = NoRequest

\* no archive is being read
NoArchive == [entries |-> <<>>, tail |-> "EOF"]
NoTarResult == [entry |-> 0, size |-> 0, err |-> "pending"]

\* the goroutines that serve requests at the same time
Handlers == {1, 2}
NoHandler == 0

\* no request is in ServeHTTP and no lock is held: pc is the position of
\* each handler, srcR the handlers holding the source's read lock, cacheR
\* and cacheW the holders of webserver.cacheMux, evpc the position of main's
\* evictor and mainW whether main.cacheMux is held
NoLocks ==
  [pc |-> [h \in Handlers |-> "idle"], srcR |-> {}, cacheR |-> {},
   cacheW |-> NoHandler, evpc |-> "wait", mainW |-> FALSE]

Constructed ==
  /\ SourceConstructed
  /\ archive = NoArchive
  /\ tarResult = NoTarResult
  /\ lk = NoLocks

\* main() builds one of the two sources
Init ==
  /\ kind \in {"remote", "disk"}
  /\ dbFile = Absent
  /\ allowedCodes = {"US"}
  /\ requests = 0
  /\ maxRetries \in 0..MaxFetches
  /\ kind = "disk" => maxRetries = 0
  /\ budget = MaxFetches
  /\ Constructed

\* a RemoteFetcher that only serves Reload() calls, one at a time
InitRetry ==
  /\ kind = "remote"
  /\ dbFile = Absent
  /\ allowedCodes = {"US"}
  /\ requests = 0
  /\ maxRetries \in 0..MaxRetriesBound
  /\ budget = MaxRetryFetches
  /\ Constructed

\* ------------------------------------------------- RemoteFetcher: lifecycle

\* Start(): r.done = make(chan struct{}); go r.periodicFetch().  The new
\* goroutine creates its ticker and enters its first fetchWithRetry; the
\* go statement lets it see the channel this Start() made.
Start ==
  /\ kind = "remote" /\ ~panicked
  /\ done < MaxStarts
  /\ FreeSlots /= {}
  /\ done' = done + 1
  /\ wk' = [wk EXCEPT ![LeastFree] = [CycleFrame("loop") EXCEPT !.ch = done + 1]]
  /\ UNCHANGED <<cfgVars, tarVars, lockVars, cacheVars, fileVars, srcVars, chClosed, panicked, stopErr, loadErr, budget, handlerVars>>

\* Stop(): if r.done != nil { close(r.done) }; return nil.  close of a closed
\* channel panics.
Stop ==
  /\ kind = "remote" /\ ~panicked
  /\ IF done = NilChan
       THEN UNCHANGED <<chClosed, panicked>> /\ stopErr' = NoErr
       ELSE IF done \in chClosed
              THEN panicked' = TRUE /\ UNCHANGED <<chClosed, stopErr>>
              ELSE /\ chClosed' = chClosed \cup {done}
                   /\ stopErr' = NoErr
                   /\ UNCHANGED panicked
  /\ UNCHANGED <<cfgVars, tarVars, lockVars, cacheVars, fileVars, srcVars, done, loadErr, budget, wk, handlerVars>>

\* Reload(): return r.fetchWithRetry(), on the caller's goroutine
Reload ==
  /\ kind = "remote" /\ ~panicked
  /\ FreeSlots /= {}
  /\ wk' = [wk EXCEPT ![LeastFree] = CycleFrame("reload")]
  /\ UNCHANGED <<cfgVars, tarVars, lockVars, cacheVars, fileVars, srcVars, chanVars, loadErr, budget, handlerVars>>

\* ---------------------------------------------- RemoteFetcher: fetchWithRetry

\* for i := range r.maxRetries
MoreAttemptsOffByOne(i, n) == i <= n

MoreAttempts(i, n) == i < n

\* time.Sleep(r.BaseBackoff * time.Duration(i+1))
BackoffDelayConstant(i) == BaseBackoff

BackoffDelay(i) == BaseBackoff * (i + 1)

\* the loop body is entered: r.fetch() is called
BeginAttempt(w) ==
  /\ kind = "remote" /\ ~panicked
  /\ wk[w].pc = "cycle"
  /\ MoreAttempts(wk[w].i, maxRetries)
  /\ budget > 0
  /\ budget' = budget - 1
  /\ wk' = [wk EXCEPT ![w].pc = "fetch", ![w].new = NilReader,
                      ![w].prevClosed = NilReader, ![w].closeErr = NoErr,
                      ![w].size = 0, ![w].opened = "none", ![w].rewritten = FALSE]
  /\ UNCHANGED <<cfgVars, tarVars, lockVars, cacheVars, fileVars, srcVars, chanVars, loadErr, handlerVars>>

\* the range is exhausted: return errors.Wrap(err, "max retries exceeded")
Exhausted(w) ==
  /\ kind = "remote" /\ ~panicked
  /\ wk[w].pc = "cycle"
  /\ ~MoreAttempts(wk[w].i, maxRetries)
  /\ wk' = [wk EXCEPT ![w].pc = "returned",
                      ![w].result = Wrap(wk[w].err, "max retries exceeded")]
  /\ UNCHANGED <<cfgVars, tarVars, lockVars, cacheVars, fileVars, srcVars, chanVars, loadErr, budget, handlerVars>>

\* what the cycle's history keeps of an attempt: success, a failed download
\* request (transport error or a status other than 200), any other failure
Outcome(e) ==
  IF e \in {NoErr, ErrTransport} THEN e ELSE "failed"

\* fetch() returned e: err = e, the failure is logged, the backoff sleep begins
FailedFrame(f, e) ==
  [f EXCEPT !.pc = "sleep", !.err = e, !.log = Append(@, Outcome(e)),
            !.delays = Append(@, BackoffDelay(f.i))]

\* fetch() returned nil: fetchWithRetry returns nil
SucceededFrame(f) ==
  [f EXCEPT !.pc = "returned", !.err = NoErr, !.log = Append(@, NoErr),
            !.result = NoErr]

\* fetch() up to createReader: download, gunzip, untar, size check, reader
\* construction.  Either one of them fails, or a new reader exists.
Download(w) ==
  /\ kind = "remote" /\ ~panicked
  /\ wk[w].pc = "fetch"
  /\ \/ \E e \in DownloadErrors :
          /\ wk' = [wk EXCEPT ![w] = FailedFrame(@, e)]
          /\ UNCHANGED <<lookupOk, nReaders>>
     \/ \E ok \in BOOLEAN :
          /\ nReaders < MaxReaders
          /\ nReaders' = nReaders + 1
          /\ lookupOk' = [lookupOk EXCEPT ![nReaders + 1] = ok]
          /\ wk' = [wk EXCEPT ![w].pc = "swap", ![w].new = nReaders + 1]
  /\ UNCHANGED <<cfgVars, tarVars, lockVars, cacheVars, fileVars, reader, ready, mutex, closed, validated, chanVars, loadErr,
                 budget, handlerVars>>

\* the backoff sleep ends: continue, i is incremented
Wake(w) ==
  /\ kind = "remote" /\ ~panicked
  /\ wk[w].pc = "sleep"
  /\ wk' = [wk EXCEPT ![w].pc = "cycle", ![w].i = @ + 1]
  /\ UNCHANGED <<cfgVars, tarVars, lockVars, cacheVars, fileVars, srcVars, chanVars, loadErr, budget, handlerVars>>

\* -------------------------------------------- RemoteFetcher: updateReaderState

\* what Close() of a reader may return
CloseResults(r) == IF r = NilReader THEN {NoErr} ELSE {NoErr, ErrClose}

\* r.mutex.Lock(), which waits until no writer and no reader holds the
\* lock; if r.reader != nil { if err := r.reader.Close(); err !=
\* nil { log } }: the Close error is logged and the call goes on
LockAndClosePrevious(w) ==
  /\ kind = "remote" /\ ~panicked
  /\ wk[w].pc = "swap"
  /\ mutex = NoWorker /\ lk.srcR = {}
  /\ mutex' = w
  /\ closed' = CloseReader(closed, reader)
  /\ \E e \in CloseResults(reader) :
       wk' = [wk EXCEPT ![w].pc = "validate", ![w].prevClosed = reader,
                        ![w].closeErr = e]
  /\ UNCHANGED <<cfgVars, tarVars, lockVars, cacheVars, fileVars, reader, ready, lookupOk, validated, nReaders, chanVars,
                 loadErr, budget, handlerVars>>

\* r.reader after the sentinel lookup: the new reader only when it passed
ReaderAfterValidationNilOnFailure(cur, new, ok) ==
  IF ok THEN new ELSE NilReader

ReaderAfterValidationUnchecked(cur, new, ok) == new

ReaderAfterValidation(cur, new, ok) ==
  IF ok THEN new ELSE cur

\* r.ready after the sentinel lookup
ReadyAfterValidation(cur, ok) ==
  IF ok THEN TRUE ELSE cur

\* an updateReaderState that gives up when Close of the previous reader
\* returned an error
SwapProceedsCloseFatal(closeErr, lookedUp) == lookedUp /\ closeErr = NoErr

\* whether updateReaderState goes on to install: the sentinel lookup alone
\* decides
SwapProceeds(closeErr, lookedUp) == lookedUp

\* an updateReaderState that returns the validation error without closing
\* the reader it was given
ClosedAfterValidationLeaked(c, new, ok) == c

\* the Close calls after the sentinel lookup: reader.Close() when it failed
ClosedAfterValidation(c, new, ok) ==
  IF ok THEN c ELSE CloseReader(c, new)

\* an updateReaderState that unlocks only on its way to return nil
MutexAfterSwapKeptOnError(w, ok) == IF ok THEN NoWorker ELSE w

\* defer r.mutex.Unlock(): the lock is free whichever return is taken
MutexAfterSwap(w, ok) == NoWorker

\* reader.Lookup(8.8.8.8): on an error close the new reader and fail;
\* otherwise r.reader = reader; r.ready = true.  Then the deferred Unlock.
ValidateAndInstall(w) ==
  /\ kind = "remote" /\ ~panicked
  /\ wk[w].pc = "validate"
  /\ mutex = w
  /\ LET n == wk[w].new
         ok == SwapProceeds(wk[w].closeErr, lookupOk[n])
     IN /\ reader' = ReaderAfterValidation(reader, n, ok)
        /\ ready' = ReadyAfterValidation(ready, ok)
        /\ validated' = IF ok THEN validated \cup {n} ELSE validated
        /\ closed' = ClosedAfterValidation(closed, n, ok)
        /\ wk' = [wk EXCEPT ![w] = IF ok THEN SucceededFrame(@)
                                         ELSE FailedFrame(@, ErrValidation)]
        /\ mutex' = MutexAfterSwap(w, ok)
  /\ UNCHANGED <<cfgVars, tarVars, lockVars, cacheVars, fileVars, lookupOk, nReaders, chanVars, loadErr, budget, handlerVars>>

\* ----------------------------------------------- RemoteFetcher: periodicFetch

\* the channels a loop may find in r.done when it enters its select: Start()
\* writes the field with no lock held, so the read sees the channel the loop
\* saw last or any channel a later Start() stored
ObservableChans(f) == f.ch..done

\* a loop for which an error of fetchWithRetry is fatal
LoopAfterCycleFatal(f, c) ==
  IF f.result = NoErr
    THEN [FreeFrame EXCEPT !.role = "loop", !.pc = "select", !.ch = c]
    ELSE FreeFrame

\* periodicFetch after a cycle, failed (the error is logged) or not: the
\* select on channel c
LoopAfterCycle(f, c) ==
  [FreeFrame EXCEPT !.role = "loop", !.pc = "select", !.ch = c]

\* fetchWithRetry has returned: Reload hands the result to its caller, the
\* loop logs it and enters its select, which evaluates r.done
Return(w) ==
  /\ kind = "remote" /\ ~panicked
  /\ wk[w].pc = "returned"
  /\ IF wk[w].role = "loop"
       THEN \E c \in ObservableChans(wk[w]) :
              wk' = [wk EXCEPT ![w] = LoopAfterCycle(wk[w], c)]
       ELSE wk' = [wk EXCEPT ![w] = FreeFrame]
  /\ UNCHANGED <<cfgVars, tarVars, lockVars, cacheVars, fileVars, srcVars, chanVars, loadErr, budget, handlerVars>>

\* select: case <-ticker.C: a tick arrives and the next cycle is entered
LoopTick(w) ==
  /\ kind = "remote" /\ ~panicked
  /\ wk[w].pc = "select"
  /\ wk' = [wk EXCEPT ![w] = [CycleFrame("loop") EXCEPT !.ch = wk[w].ch]]
  /\ UNCHANGED <<cfgVars, tarVars, lockVars, cacheVars, fileVars, srcVars, chanVars, loadErr, budget, handlerVars>>

\* select: case <-r.done: return, on the channel the select evaluated; with
\* the tick case also ready Go picks either.
LoopExit(w) ==
  /\ kind = "remote" /\ ~panicked
  /\ wk[w].pc = "select"
  /\ wk[w].ch \in chClosed
  /\ wk' = [wk EXCEPT ![w] = FreeFrame]
  /\ UNCHANGED <<cfgVars, tarVars, lockVars, cacheVars, fileVars, srcVars, chanVars, loadErr, budget, handlerVars>>

\* ------------------------------------------------------------- DiskLoader

\* d.reader after Stop(): Stop closes the reader and leaves the field alone
DiskReaderAfterStop(cur) == cur

\* what Reload() returns when os.Open or maxminddb.Open fails
ErrDiskOpen == "failed to open db path"
ErrDiskFormat == "invalid MaxMind DB file"

DiskLoadErrors == {ErrDiskOpen, ErrDiskFormat}

\* a Reload() that drops the reader when the open fails
DiskReaderAfterFailedLoadDropped(cur) == NilReader

\* d.reader after a failed open: Reload() returns before it takes the lock
DiskReaderAfterFailedLoad(cur) == cur

\* Reload(): os.Open and maxminddb.Open, then under the lock close the old
\* reader, install the new one and set ready.  A failed open returns the
\* error before the lock is taken.
DiskLoad ==
  /\ kind = "disk" /\ ~panicked
  /\ \/ /\ loadErr' \in DiskLoadErrors
        /\ reader' = DiskReaderAfterFailedLoad(reader)
        /\ UNCHANGED <<ready, closed, lookupOk, nReaders>>
     \/ \E ok \in BOOLEAN :
          /\ nReaders < MaxReaders
          /\ nReaders' = nReaders + 1
          /\ lookupOk' = [lookupOk EXCEPT ![nReaders + 1] = ok]
          /\ closed' = CloseReader(closed, reader)
          /\ reader' = nReaders + 1
          /\ ready' = TRUE
          /\ loadErr' = NoErr
  /\ UNCHANGED <<cfgVars, tarVars, lockVars, cacheVars, fileVars, mutex, validated, chanVars, budget, wk, handlerVars>>

\* Start(): return d.Reload()
DiskStart == DiskLoad

\* Reload()
DiskReload == DiskLoad

\* Stop(): under the lock, if d.reader != nil { return d.reader.Close() };
\* return nil
DiskStop ==
  /\ kind = "disk" /\ ~panicked
  /\ reader /= NilReader => closed[reader] < MaxCloses
  /\ closed' = CloseReader(closed, reader)
  /\ reader' = DiskReaderAfterStop(reader)
  /\ IF reader = NilReader
       THEN stopErr' = NoErr
       ELSE stopErr' \in {NoErr, ErrClose}
  /\ UNCHANGED <<cfgVars, tarVars, lockVars, cacheVars, fileVars, ready, mutex, lookupOk, validated, nReaders, done, chClosed,
                 panicked, loadErr, budget, wk, handlerVars>>

\* ------------------------------------------------- AuthHandler.ServeHTTP

\* if !ah.Db.IsReady() { 503 }: IsReady() takes the read lock
HandlerCheckReady ==
  /\ ~panicked
  /\ hpc = "idle"
  /\ mutex = NoWorker
  /\ hpc' = IF IsReady THEN "checked" ELSE "idle"
  /\ UNCHANGED <<cfgVars, tarVars, lockVars, cacheVars, fileVars, srcVars, chanVars, loadErr, budget, wk, held>>

\* a request answered before the lookup: no IP, a cache hit, an excluded subnet
HandlerReturnEarly ==
  /\ ~panicked
  /\ hpc = "checked"
  /\ hpc' = "idle"
  /\ UNCHANGED <<cfgVars, tarVars, lockVars, cacheVars, fileVars, srcVars, chanVars, loadErr, budget, wk, held>>

\* ah.Db.GetReader(): takes the read lock, returns the reader field
HandlerGetReader ==
  /\ ~panicked
  /\ hpc = "checked"
  /\ mutex = NoWorker
  /\ held' = GetReader
  /\ hpc' = "got"
  /\ UNCHANGED <<cfgVars, tarVars, lockVars, cacheVars, fileVars, srcVars, chanVars, loadErr, budget, wk>>

\* .Lookup(ip, &record) on the reader obtained, with no lock held, and the
\* response: the request is over
HandlerLookup ==
  /\ ~panicked
  /\ hpc = "got"
  /\ hpc' = "idle"
  /\ held' = NilReader
  /\ UNCHANGED <<cfgVars, tarVars, lockVars, cacheVars, fileVars, srcVars, chanVars, loadErr, budget, wk>>

\* ------------------------------------------------------------------- Next

Next ==
  \/ Start
  \/ Stop
  \/ Reload
  \/ \E w \in Workers : BeginAttempt(w)
  \/ \E w \in Workers : Exhausted(w)
  \/ \E w \in Workers : Download(w)
  \/ \E w \in Workers : Wake(w)
  \/ \E w \in Workers : LockAndClosePrevious(w)
  \/ \E w \in Workers : ValidateAndInstall(w)
  \/ \E w \in Workers : Return(w)
  \/ \E w \in Workers : LoopTick(w)
  \/ \E w \in Workers : LoopExit(w)
  \/ DiskStart
  \/ DiskReload
  \/ DiskStop
  \/ HandlerCheckReady
  \/ HandlerReturnEarly
  \/ HandlerGetReader
  \/ HandlerLookup

Spec == Init /\ [][Next]_vars

\* Reload() called while no other fetch cycle runs
ReloadAlone ==
  /\ FreeSlots = Workers
  /\ Reload

NextRetry ==
  \/ ReloadAlone
  \/ \E w \in Workers : BeginAttempt(w)
  \/ \E w \in Workers : Exhausted(w)
  \/ \E w \in Workers : Download(w)
  \/ \E w \in Workers : Wake(w)
  \/ \E w \in Workers : LockAndClosePrevious(w)
  \/ \E w \in Workers : ValidateAndInstall(w)
  \/ \E w \in Workers : Return(w)

SpecRetry == InitRetry /\ [][NextRetry]_vars

\* a RemoteFetcher driven by Start() and Stop() alone: every fetch cycle is
\* a cycle of a background loop
InitLoop ==
  /\ kind = "remote"
  /\ dbFile = Absent
  /\ allowedCodes = {"US"}
  /\ requests = 0
  /\ maxRetries \in 0..MaxFetches
  /\ budget = MaxFetches
  /\ Constructed

NextLoop ==
  \/ Start
  \/ Stop
  \/ \E w \in Workers : BeginAttempt(w)
  \/ \E w \in Workers : Exhausted(w)
  \/ \E w \in Workers : Download(w)
  \/ \E w \in Workers : Wake(w)
  \/ \E w \in Workers : LockAndClosePrevious(w)
  \/ \E w \in Workers : ValidateAndInstall(w)
  \/ \E w \in Workers : Return(w)
  \/ \E w \in Workers : LoopTick(w)
  \/ \E w \in Workers : LoopExit(w)

SpecLoop == InitLoop /\ [][NextLoop]_vars

\* fetch() past the download budget of the model: the request runs into the
\* client's timeout, fetch returns the transport error
AttemptTimesOut(w) ==
  /\ kind = "remote" /\ ~panicked
  /\ wk[w].pc = "cycle"
  /\ MoreAttempts(wk[w].i, maxRetries)
  /\ budget = 0
  /\ wk' = [wk EXCEPT ![w] = FailedFrame(@, ErrTransport)]
  /\ UNCHANGED <<cfgVars, tarVars, lockVars, cacheVars, fileVars, srcVars, chanVars, loadErr, budget, handlerVars>>

NextLoopFair ==
  \/ NextLoop
  \/ \E w \in Workers : AttemptTimesOut(w)

\* what the goroutine of slot w does by itself once it is scheduled: every
\* fetch attempt comes to an end, a sleep ends, the ticker ticks
Progress(w) ==
  \/ BeginAttempt(w)
  \/ AttemptTimesOut(w)
  \/ Exhausted(w)
  \/ Download(w)
  \/ Wake(w)
  \/ ValidateAndInstall(w)
  \/ Return(w)
  \/ LoopTick(w)

\* a fair scheduler; sync.RWMutex does not starve a waiting writer, and a
\* select whose done case is ready again and again takes it in the end (Go
\* picks among the ready cases at random).  Start() and Stop() are the
\* caller's and need never happen.
LoopFairness ==
  \A w \in Workers :
    /\ WF_vars(Progress(w))
    /\ SF_vars(LockAndClosePrevious(w))
    /\ SF_vars(LoopExit(w))

SpecLoopFair == InitLoop /\ [][NextLoopFair]_vars /\ LoopFairness

\* --------------------------------------------- RemoteFetcher: the size check

\* the sizes of the extracted database, in bytes: those around the limit
PayloadSizes == (maxDBSize - SizeSpan)..(maxDBSize + SizeSpan)

\* a size check that rejects the limit itself
TooLargeAtLimit(size) == size >= maxDBSize

\* if size > maxDBSize
TooLarge(size) == size > maxDBSize

\* fetch() up to createReader with the size of the payload known:
\* downloadAndExtractDB fails, or buffers size bytes; then the size check;
\* then createReader fails or builds the new reader
DownloadSized(w) ==
  /\ kind = "remote" /\ ~panicked
  /\ wk[w].pc = "fetch"
  /\ \/ /\ \E e \in {ErrTransport, ErrDecode, ErrNotFound} :
             wk' = [wk EXCEPT ![w] = FailedFrame(@, e)]
        /\ UNCHANGED <<lookupOk, nReaders>>
     \/ \E sz \in PayloadSizes :
          IF TooLarge(sz)
            THEN /\ wk' = [wk EXCEPT ![w] = FailedFrame([@ EXCEPT !.size = sz], ErrSize)]
                 /\ UNCHANGED <<lookupOk, nReaders>>
            ELSE \/ /\ wk' = [wk EXCEPT ![w] =
                                FailedFrame([@ EXCEPT !.size = sz], ErrConstruct)]
                    /\ UNCHANGED <<lookupOk, nReaders>>
                 \/ \E ok \in BOOLEAN :
                      /\ nReaders < MaxReaders
                      /\ nReaders' = nReaders + 1
                      /\ lookupOk' = [lookupOk EXCEPT ![nReaders + 1] = ok]
                      /\ wk' = [wk EXCEPT ![w].pc = "swap", ![w].new = nReaders + 1,
                                          ![w].size = sz]
  /\ UNCHANGED <<cfgVars, tarVars, lockVars, cacheVars, fileVars, reader, ready, mutex, closed, validated,
                 chanVars, loadErr, budget, handlerVars>>

NextSize ==
  \/ ReloadAlone
  \/ \E w \in Workers : BeginAttempt(w)
  \/ \E w \in Workers : Exhausted(w)
  \/ \E w \in Workers : DownloadSized(w)
  \/ \E w \in Workers : Wake(w)
  \/ \E w \in Workers : LockAndClosePrevious(w)
  \/ \E w \in Workers : ValidateAndInstall(w)
  \/ \E w \in Workers : Return(w)

SpecSize == InitRetry /\ [][NextSize]_vars

\* ------------------------------------------------- utils.ExtractFileFromTar

\* tar.Header.Typeflag: a regular file, a directory, a symbolic link
TypeReg == "0"
TypeDir == "5"
TypeSymlink == "2"
Typeflags == {TypeReg, TypeDir, TypeSymlink}

\* the target fetch() asks for ("GeoLite2-Country.mmdb"), as one character
TargetName == <<"m">>
DotDot == <<".", ".">>

\* entry names, as sequences of characters
EntryNames ==
  { <<"m">>, <<"d", "/", "m">>, <<".", ".", "/", "m">>, <<"x">>,
    <<"m", ".", ".", "x">>, <<".", "m">> }

Headers == [Typeflag : Typeflags, Name : EntryNames, Size : 1..MaxEntrySize]

\* a tar stream: its entries in stream order, and how tr.Next() ends after
\* the last of them: io.EOF, or a read error of a damaged stream
Archives ==
  [entries : UNION {[1..n -> Headers] : n \in 0..MaxEntries}, tail : {"EOF", "damaged"}]

ErrNotInArchive == "not found in archive"
ErrTarRead == "unexpected EOF"

\* strings.Contains(s, substr)
Contains(s, substr) ==
  \E i \in 0..(Len(s) - Len(substr)) : SubSeq(s, i + 1, i + Len(substr)) = substr

\* strings.HasPrefix(s, prefix)
HasPrefix(s, prefix) ==
  Len(prefix) <= Len(s) /\ SubSeq(s, 1, Len(prefix)) = prefix

\* a check that lets every name through
IsTraversalNever(name) == FALSE

\* strings.Contains(header.Name, "..")
IsTraversal(name) == Contains(name, DotDot)

\* a match of names that begin with the target only
NameMatchesPrefix(name, target) == HasPrefix(name, target)

\* strings.Contains(header.Name, target)
NameMatches(name, target) == Contains(name, target)

\* the loop of ExtractFileFromTar from its i-th call of tr.Next()
RECURSIVE ScanFrom(_, _, _)
ScanFrom(tr, target, i) ==
  IF i > Len(tr.entries)
    THEN IF tr.tail = "EOF"
           THEN [entry |-> 0, size |-> 0, err |-> ErrNotInArchive]
           ELSE [entry |-> 0, size |-> 0, err |-> ErrTarRead]
    ELSE LET header == tr.entries[i] IN
           IF header.Typeflag /= TypeReg THEN ScanFrom(tr, target, i + 1)
           ELSE IF IsTraversal(header.Name) THEN ScanFrom(tr, target, i + 1)
           ELSE IF NameMatches(header.Name, target)
                  THEN [entry |-> i, size |-> header.Size, err |-> NoErr]
                  ELSE ScanFrom(tr, target, i + 1)

\* ExtractFileFromTar(tr, target): entry is the position in the stream of
\* the entry the returned reader reads, 0 for a nil reader
ExtractFileFromTar(tr, target) == ScanFrom(tr, target, 1)

\* downloadAndExtractDB is handed some archive
InitTar ==
  /\ kind = "remote"
  /\ dbFile = Absent
  /\ allowedCodes = {"US"}
  /\ requests = 0
  /\ maxRetries = 0
  /\ budget = 0
  /\ SourceConstructed
  /\ archive \in Archives
  /\ tarResult = NoTarResult
  /\ lk = NoLocks

\* utils.ExtractFileFromTar(tr, "GeoLite2-Country.mmdb")
Extract ==
  /\ tarResult = NoTarResult
  /\ tarResult' = ExtractFileFromTar(archive, TargetName)
  /\ UNCHANGED <<cfgVars, lockVars, cacheVars, fileVars, srcVars, chanVars, loadErr,
                 budget, wk, handlerVars, archive>>

NextTar == Extract

SpecTar == InitTar /\ [][NextTar]_vars

\* ------------------------------------- RemoteFetcher: file-backed createReader

\* the file a previous run of the service left at DBPath
OldFile == MaxFileFetches + 1

\* the bytes downloaded by the fetch() call that took the budget down to b
Payload(b) == b + 1

ErrTmpCreate == "failed to create temporary file"
ErrCopy == "failed to copy data to temporary file"
ErrOpen == "failed to open maxmind reader from file"
ErrBackup == "failed to backup existing file"
ErrRename == "failed to rename temporary file"

FetchErrors == {ErrTransport, ErrDecode, ErrNotFound, ErrSize}

\* createFileReader returns e: the deferred out.Close() runs
FileFailedFrame(f, e) ==
  FailedFrame([f EXCEPT !.out = "none", !.opened = "none"], e)

\* The file a frame's descriptor out writes to, and the file its new reader
\* was opened on, are found at "tmp", "db" or "backup", or at no path
\* ("unlinked"); os.Rename and os.Remove take the files of all open
\* descriptors and readers with them: loc maps a place to the new one
Moved(frames, loc) ==
  [v \in Workers |->
     [frames[v] EXCEPT !.out = IF @ \in DOMAIN loc THEN loc[@] ELSE @,
                       !.opened = IF @ \in DOMAIN loc THEN loc[@] ELSE @]]

\* worker w truncates or writes the file at place at: the frames of the
\* other workers whose new reader was opened on that file record it
Overwritten(frames, w, at) ==
  [v \in Workers |->
     IF v /= w /\ at \in {"tmp", "db", "backup"} /\ frames[v].opened = at
       THEN [frames[v] EXCEPT !.rewritten = TRUE]
       ELSE frames[v]]

\* os.Rename(targetPath, backupPath)
RenamedToBackup == ("db" :> "backup") @@ ("backup" :> "unlinked")
\* os.Rename(tmpPath, targetPath)
RenamedToTarget == ("tmp" :> "db") @@ ("db" :> "unlinked")
\* os.Rename(backupPath, targetPath)
Restored == ("backup" :> "db") @@ ("db" :> "unlinked")
\* os.Remove(backupPath)
BackupRemoved == ("backup" :> "unlinked")
\* os.Remove(tmpPath)
TmpRemoved == ("tmp" :> "unlinked")
\* no file changes its place
Unmoved == ("none" :> "none")

ErrRestore == "rename of the backup failed"

\* an AtomicReplaceFile that returns the error of the restore when there is one
RenameFailureMasked(renameErr, restoreErr) ==
  IF restoreErr /= NoErr THEN restoreErr ELSE renameErr

\* AtomicReplaceFile when os.Rename(tmpPath, targetPath) has failed:
\* restoreErr is dropped, return errors.Wrap(err, "failed to rename
\* temporary file")
RenameFailure(renameErr, restoreErr) == renameErr

\* a RemoteFetcher with inMemory false, serving Reload() calls one at a time;
\* DBPath may hold the file of an earlier run
InitFile ==
  /\ kind = "remote"
  /\ maxRetries \in 1..MaxRetriesBound
  /\ budget = MaxFileFetches
  /\ dbFile \in {Absent, OldFile}
  /\ allowedCodes = {"US"}
  /\ requests = 0
  /\ Constructed

\* fetch() up to createReader: downloadAndExtractDB and the size check
DownloadData(w) ==
  /\ kind = "remote" /\ ~panicked
  /\ wk[w].pc = "fetch"
  /\ dbBefore' = [dbBefore EXCEPT ![w] = dbFile]
  /\ \/ \E e \in FetchErrors : wk' = [wk EXCEPT ![w] = FailedFrame(@, e)]
     \/ wk' = [wk EXCEPT ![w].pc = "create"]
  /\ UNCHANGED <<cfgVars, tarVars, lockVars, cacheVars, dbFile, tmpFile, backupFile, srcVars, chanVars, loadErr,
                 budget, handlerVars>>

\* utils.CreateTempFile(r.DBPath): os.Create(basePath + ".tmp") makes the
\* file, or empties the one that is there
CreateTempFile(w) ==
  /\ kind = "remote" /\ ~panicked
  /\ wk[w].pc = "create"
  /\ \/ /\ wk' = [wk EXCEPT ![w] = FileFailedFrame(@, ErrTmpCreate)]
        /\ UNCHANGED tmpFile
     \/ /\ tmpFile' = Truncated
        /\ wk' = Overwritten([wk EXCEPT ![w].pc = "copy", ![w].out = "tmp"], w, "tmp")
  /\ UNCHANGED <<cfgVars, tarVars, lockVars, cacheVars, dbFile, backupFile, dbBefore, srcVars, chanVars, loadErr,
                 budget, handlerVars>>

\* what is at a path after a copy through a descriptor whose file is at
\* place at: the data if the path is that place
Written(content, path, at, data) == IF at = path THEN data ELSE content

\* io.CopyN(out, bytes.NewReader(data), size) writes to the file out was
\* opened on, wherever it is by now; on an error createFileReader returns
\* with the file as the copy left it
CopyData(w) ==
  /\ kind = "remote" /\ ~panicked
  /\ wk[w].pc = "copy"
  /\ \/ /\ wk' = [wk EXCEPT ![w] = FileFailedFrame(@, ErrCopy)]
        /\ UNCHANGED <<dbFile, tmpFile, backupFile>>
     \/ /\ tmpFile' = Written(tmpFile, "tmp", wk[w].out, Payload(budget))
        /\ dbFile' = Written(dbFile, "db", wk[w].out, Payload(budget))
        /\ backupFile' = Written(backupFile, "backup", wk[w].out, Payload(budget))
        /\ wk' = Overwritten([wk EXCEPT ![w].pc = "open"], w, wk[w].out)
  /\ UNCHANGED <<cfgVars, tarVars, lockVars, cacheVars, dbBefore, srcVars, chanVars, loadErr,
                 budget, handlerVars>>

\* maxminddb.Open(tmpPath) needs a whole database at the path; on an error
\* createFileReader returns with the temporary file in place
OpenTempFile(w) ==
  /\ kind = "remote" /\ ~panicked
  /\ wk[w].pc = "open"
  /\ \/ /\ wk' = [wk EXCEPT ![w] = FileFailedFrame(@, ErrOpen)]
        /\ UNCHANGED <<lookupOk, nReaders>>
     \/ \E ok \in BOOLEAN :
          /\ tmpFile \notin {Absent, Truncated}
          /\ nReaders < MaxReaders
          /\ nReaders' = nReaders + 1
          /\ lookupOk' = [lookupOk EXCEPT ![nReaders + 1] = ok]
          /\ wk' = [wk EXCEPT ![w].pc = "backup", ![w].new = nReaders + 1,
                              ![w].opened = "tmp"]
  /\ UNCHANGED <<cfgVars, tarVars, lockVars, cacheVars, fileVars, reader, ready, mutex, closed, validated, chanVars,
                 loadErr, budget, handlerVars>>

\* AtomicReplaceFile, first half: if os.Stat(targetPath) succeeds,
\* os.Rename(targetPath, targetPath + ".backup").  When AtomicReplaceFile
\* fails, createFileReader closes the new reader, removes the temporary
\* file and returns the error.
BackupTarget(w) ==
  /\ kind = "remote" /\ ~panicked
  /\ wk[w].pc = "backup"
  /\ \/ /\ dbFile = Absent
        /\ wk' = [wk EXCEPT ![w].pc = "rename"]
        /\ UNCHANGED <<dbFile, tmpFile, backupFile, closed>>
     \/ /\ dbFile /= Absent
        /\ backupFile' = dbFile
        /\ dbFile' = Absent
        /\ wk' = Moved([wk EXCEPT ![w].pc = "rename"], RenamedToBackup)
        /\ UNCHANGED <<tmpFile, closed>>
     \/ /\ dbFile /= Absent
        /\ closed' = CloseReader(closed, wk[w].new)
        /\ \/ /\ tmpFile' = Absent
              /\ wk' = Moved([wk EXCEPT ![w] = FileFailedFrame(@, ErrBackup)], TmpRemoved)
           \/ /\ tmpFile' = tmpFile
              /\ wk' = [wk EXCEPT ![w] = FileFailedFrame(@, ErrBackup)]
        /\ UNCHANGED <<dbFile, backupFile>>
  /\ UNCHANGED <<cfgVars, tarVars, lockVars, cacheVars, dbBefore, reader, ready, mutex, lookupOk, validated, nReaders,
                 chanVars, loadErr, budget, handlerVars>>

\* AtomicReplaceFile, second half: os.Rename(tmpPath, targetPath) and
\* os.Remove(backupPath), whose error is not looked at; if the rename
\* fails, os.Rename(backupPath, targetPath), whose own failure is dropped,
\* and createFileReader closes the new reader and calls os.Remove(tmpPath),
\* whose error is not looked at either
RenameTemp(w) ==
  /\ kind = "remote" /\ ~panicked
  /\ wk[w].pc = "rename"
  /\ \/ /\ tmpFile /= Absent
        /\ dbFile' = tmpFile
        /\ tmpFile' = Absent
        /\ \E removed \in {BackupRemoved, Unmoved} :
             /\ backupFile' = IF removed = BackupRemoved THEN Absent ELSE backupFile
             /\ wk' = Moved(Moved([wk EXCEPT ![w].pc = "swap", ![w].out = "none"],
                                  RenamedToTarget), removed)
        /\ UNCHANGED closed
     \/ \E restored \in {Restored, Unmoved}, removed \in {TmpRemoved, Unmoved} :
          /\ restored = Restored => backupFile /= Absent
          /\ dbFile' = IF restored = Restored THEN backupFile ELSE dbFile
          /\ backupFile' = IF restored = Restored THEN Absent ELSE backupFile
          /\ tmpFile' = IF removed = TmpRemoved THEN Absent ELSE tmpFile
          /\ wk' = Moved(Moved([wk EXCEPT ![w] =
                                  FileFailedFrame(@,
                                    RenameFailure(ErrRename,
                                      IF restored = Restored THEN NoErr ELSE ErrRestore))],
                               restored), removed)
          /\ closed' = CloseReader(closed, wk[w].new)
  /\ UNCHANGED <<cfgVars, tarVars, lockVars, cacheVars, dbBefore, reader, ready, mutex, lookupOk, validated, nReaders,
                 chanVars, loadErr, budget, handlerVars>>

NextFile ==
  \/ ReloadAlone
  \/ \E w \in Workers : BeginAttempt(w)
  \/ \E w \in Workers : Exhausted(w)
  \/ \E w \in Workers : DownloadData(w)
  \/ \E w \in Workers : CreateTempFile(w)
  \/ \E w \in Workers : CopyData(w)
  \/ \E w \in Workers : OpenTempFile(w)
  \/ \E w \in Workers : BackupTarget(w)
  \/ \E w \in Workers : RenameTemp(w)
  \/ \E w \in Workers : Wake(w)
  \/ \E w \in Workers : LockAndClosePrevious(w)
  \/ \E w \in Workers : ValidateAndInstall(w)
  \/ \E w \in Workers : Return(w)

SpecFile == InitFile /\ [][NextFile]_vars

\* a file-backed RemoteFetcher whose Reload() is called from several
\* goroutines: the calls overlap
InitFileRace ==
  /\ kind = "remote"
  /\ maxRetries = 1
  /\ budget = MaxRaceFetches
  /\ dbFile \in {Absent, OldFile}
  /\ allowedCodes = {"US"}
  /\ requests = 0
  /\ Constructed

NextFileRace ==
  \/ Reload
  \/ \E w \in Workers : BeginAttempt(w)
  \/ \E w \in Workers : Exhausted(w)
  \/ \E w \in Workers : DownloadData(w)
  \/ \E w \in Workers : CreateTempFile(w)
  \/ \E w \in Workers : CopyData(w)
  \/ \E w \in Workers : OpenTempFile(w)
  \/ \E w \in Workers : BackupTarget(w)
  \/ \E w \in Workers : RenameTemp(w)
  \/ \E w \in Workers : Wake(w)
  \/ \E w \in Workers : LockAndClosePrevious(w)
  \/ \E w \in Workers : ValidateAndInstall(w)
  \/ \E w \in Workers : Return(w)

SpecFileRace == InitFileRace /\ [][NextFileRace]_vars

\* ------------------------------------- decision cache, evictor and ServeHTTP

\* getIPFromRequest found no IP: ip == nil
NoIP == ""

\* client addresses: one inside the default excluded subnet 10.0.0.0/8, two
\* outside every excluded subnet
ClientIPs == {"10.0.0.7", "8.8.4.4", "1.1.1.1"}

\* isExcluded(ip, config.Config.ExcludeCIDR)
IsExcluded(ip) == ip = "10.0.0.7"

\* record.Country.ISOCode as a reader returns it; "" when the database has no
\* country for the address
RecordCodes == {"us", "DE", ""}

\* strings.ToUpper
ToUpper(c) ==
  CASE c = "us" -> "US"
    [] c = "de" -> "DE"
    [] OTHER -> c

\* the country code stored and served as the reader returned it
IsoCodeRaw(c) == c

\* isoCode := strings.ToUpper(record.Country.ISOCode)
IsoCode(c) == ToUpper(c)

\* allowed := config.Config.AllowedCodes[isoCode]
Allowed(iso) == iso \in allowedCodes

\* geoCache[key] = entry
Put(cache, key, entry) ==
  [k \in DOMAIN cache \cup {key} |-> IF k = key THEN entry ELSE cache[k]]

\* the response is written and ServeHTTP returns; country is the X-Country
\* header, "" when it is not set
Responded(f, status, country) ==
  [f EXCEPT !.pc = "done", !.status = status, !.country = country]

\* serveVerdict(w, allowed, country)
ServeVerdict(f, allowed, country) ==
  IF allowed THEN Responded(f, 200, country) ELSE Responded(f, 403, "")

Called(f, what) == [f EXCEPT !.steps = Append(@, what)]

\* a handler that serves requests whatever IsReady() returns
ProceedsRegardless(isReady) == TRUE

\* if !ah.Db.IsReady() { 503; return }
Proceeds(isReady) == isReady

\* a handler that counts a cache hit twice
HitsAfterHitTwice(n) == n + 2

\* metrics.CacheHits.Inc()
HitsAfterHit(n) == n + 1

\* a handler that caches the LAN verdict of an excluded address
CacheAfterExcludedStored(cache, ip, at) ==
  Put(cache, ip, [allowed |-> TRUE, country |-> "LAN", at |-> at])

\* the excluded branch returns before the cache is written
CacheAfterExcluded(cache, ip, at) == cache

\* main() with a RemoteFetcher: the allow-list of the configuration, one
\* source.Start(), the evictor and the web server
InitCache ==
  /\ kind = "remote"
  /\ maxRetries = 1
  /\ budget = MaxCacheFetches
  /\ dbFile = Absent
  /\ allowedCodes \in {{"US"}, {"US", "DE"}}
  /\ requests = MaxRequests
  /\ Constructed

\* main(): source.Start(), called once
StartOnce ==
  /\ done = NilChan
  /\ Start

\* a request arrives and ServeHTTP is entered
NewRequest ==
  /\ ~panicked
  /\ rq.pc \in {"none", "done"}
  /\ requests > 0
  /\ requests' = requests - 1
  /\ \E ip \in ClientIPs \cup {NoIP} :
       rq' = [NoRequest EXCEPT !.pc = "ready", !.ip = ip]
  /\ UNCHANGED <<cfgVars, tarVars, lockVars, fileVars, srcVars, chanVars, loadErr, budget, wk, handlerVars,
                 geoCache, mainGeoCache, cacheHits, cacheEvictions, clears>>

\* if !ah.Db.IsReady() { http.Error(503); return }: IsReady() takes the read
\* lock.  (The IsReady() call of the log line before it has no effect.)
ServeCheckReady ==
  /\ ~panicked
  /\ rq.pc = "ready"
  /\ mutex = NoWorker
  /\ rq' = IF Proceeds(IsReady)
             THEN [Called(rq, "IsReady") EXCEPT !.pc = "cache", !.wasReady = IsReady]
             ELSE Responded(Called(rq, "IsReady"), 503, "")
  /\ UNCHANGED <<cfgVars, tarVars, lockVars, fileVars, srcVars, chanVars, loadErr, budget, wk, handlerVars,
                 geoCache, mainGeoCache, cacheHits, cacheEvictions, clears, requests>>

\* ip := getIPFromRequest(r): nil gives 400.  Then the cache is read under
\* the read lock; on a hit CacheHits.Inc() and serveVerdict with the entry.
ServeCacheLookup ==
  /\ ~panicked
  /\ rq.pc = "cache"
  /\ IF rq.ip = NoIP
       THEN /\ rq' = Responded(rq, 400, "")
            /\ UNCHANGED cacheHits
       ELSE IF rq.ip \in DOMAIN geoCache
              THEN /\ cacheHits' = HitsAfterHit(cacheHits)
                   /\ rq' = ServeVerdict(Called(Called(rq, "cache"), "CacheHits.Inc"),
                                         geoCache[rq.ip].allowed,
                                         geoCache[rq.ip].country)
              ELSE /\ rq' = [Called(rq, "cache") EXCEPT !.pc = "miss"]
                   /\ UNCHANGED cacheHits
  /\ UNCHANGED <<cfgVars, tarVars, lockVars, fileVars, srcVars, chanVars, loadErr, budget, wk, handlerVars,
                 geoCache, mainGeoCache, cacheEvictions, clears, requests>>

\* if isExcluded(ip, ...) { respondAllowed(w, "LAN"); return }; otherwise
\* ah.Db.GetReader(), which takes the read lock
ServeMiss ==
  /\ ~panicked
  /\ rq.pc = "miss"
  /\ IF IsExcluded(rq.ip)
       THEN /\ rq' = Responded(Called(rq, "isExcluded"), 200, "LAN")
            /\ geoCache' = CacheAfterExcluded(geoCache, rq.ip, clears)
            /\ UNCHANGED held
       ELSE /\ mutex = NoWorker
            /\ held' = GetReader
            /\ rq' = [Called(Called(rq, "isExcluded"), "GetReader") EXCEPT !.pc = "lookup"]
            /\ UNCHANGED geoCache
  /\ UNCHANGED <<cfgVars, tarVars, lockVars, fileVars, srcVars, chanVars, loadErr, budget, wk, hpc,
                 mainGeoCache, cacheHits, cacheEvictions, clears, requests>>

\* .Lookup(ip, &record) on the reader obtained: an error gives 500, otherwise
\* the record holds a country code, which is upper-cased
ServeLookup ==
  /\ ~panicked
  /\ rq.pc = "lookup"
  /\ held' = NilReader
  /\ \/ rq' = Responded(Called(rq, "Lookup"), 500, "")
     \/ \E c \in RecordCodes :
          rq' = [Called(rq, "Lookup") EXCEPT !.pc = "store", !.code = c,
                                             !.iso = IsoCode(c)]
  /\ UNCHANGED <<cfgVars, tarVars, lockVars, fileVars, srcVars, chanVars, loadErr, budget, wk, hpc,
                 geoCache, mainGeoCache, cacheHits, cacheEvictions, clears, requests>>

\* allowed := AllowedCodes[isoCode]; under the write lock
\* geoCache[ip] = cacheEntry{allowed, isoCode}; serveVerdict(w, allowed,
\* isoCode).  The entry notes how many evictor runs preceded it.
ServeStore ==
  /\ ~panicked
  /\ rq.pc = "store"
  /\ geoCache' = Put(geoCache, rq.ip, [allowed |-> Allowed(rq.iso),
                                       country |-> rq.iso, at |-> clears])
  /\ rq' = ServeVerdict(Called(rq, "store"), Allowed(rq.iso), rq.iso)
  /\ UNCHANGED <<cfgVars, tarVars, lockVars, fileVars, srcVars, chanVars, loadErr, budget, wk, handlerVars,
                 mainGeoCache, cacheHits, cacheEvictions, clears, requests>>

\* clearCachePeriodically, one tick: under main's cacheMux,
\* evicted := len(geoCache); geoCache = make(map[string]cacheEntry); then
\* metrics.CacheEvictions.Add(evicted).  geoCache is the variable of package
\* main.
ClearCache ==
  /\ ~panicked
  /\ clears < MaxClears
  /\ clears' = clears + 1
  /\ cacheEvictions' = cacheEvictions + Cardinality(DOMAIN mainGeoCache)
  /\ mainGeoCache' = EmptyMap
  /\ UNCHANGED <<cfgVars, tarVars, lockVars, fileVars, srcVars, chanVars, loadErr, budget, wk, handlerVars,
                 geoCache, cacheHits, requests, rq>>

NextCache ==
  \/ StartOnce
  \/ \E w \in Workers : BeginAttempt(w)
  \/ \E w \in Workers : Exhausted(w)
  \/ \E w \in Workers : Download(w)
  \/ \E w \in Workers : Wake(w)
  \/ \E w \in Workers : LockAndClosePrevious(w)
  \/ \E w \in Workers : ValidateAndInstall(w)
  \/ \E w \in Workers : Return(w)
  \/ \E w \in Workers : LoopTick(w)
  \/ NewRequest
  \/ ServeCheckReady
  \/ ServeCacheLookup
  \/ ServeMiss
  \/ ServeLookup
  \/ ServeStore
  \/ ClearCache

SpecCache == InitCache /\ [][NextCache]_vars

\* ------------------------------------------- the locks: requests, refresh,
\* ------------------------------------------- evictor

\* r.mutex.Lock() has been called and not yet returned: a worker that has
\* its new reader goes straight into updateReaderState.  A sync.RWMutex
\* with a writer waiting lets no new reader in.
WriterWaiting == \E w \in Workers : wk[w].pc = "swap"

\* cacheMux.Lock() has been called by a handler and not yet returned
CacheWriterWaiting == \E h \in Handlers : lk.pc[h] = "lockCache"

\* a GetReader() that returns with the read lock still held
SrcReadersAfterCallKept(R, h) == R

\* defer r.mutex.RUnlock() of IsReady() and GetReader()
SrcReadersAfterCall(R, h) == R \ {h}

\* ah.Db.IsReady() / ah.Db.GetReader(): r.mutex.RLock()
HandlerRLock(h) ==
  /\ ~panicked
  /\ lk.pc[h] \in {"idle", "miss"}
  /\ mutex = NoWorker /\ ~WriterWaiting
  /\ lk' = [lk EXCEPT !.srcR = @ \cup {h},
                      !.pc[h] = IF lk.pc[h] = "idle" THEN "isReady" ELSE "getReader"]
  /\ UNCHANGED <<cfgVars, tarVars, cacheVars, fileVars, srcVars, chanVars, loadErr, budget,
                 wk, handlerVars>>

\* IsReady() / GetReader() return: the deferred RUnlock; a source that is
\* not ready ends the request with 503
HandlerRUnlock(h) ==
  /\ ~panicked
  /\ lk.pc[h] \in {"isReady", "getReader"}
  /\ lk' = [lk EXCEPT !.srcR = SrcReadersAfterCall(@, h),
                      !.pc[h] = IF lk.pc[h] = "getReader" THEN "lookup"
                                ELSE IF IsReady THEN "checked" ELSE "idle"]
  /\ UNCHANGED <<cfgVars, tarVars, cacheVars, fileVars, srcVars, chanVars, loadErr, budget,
                 wk, handlerVars>>

\* cacheMux.RLock() before the read of geoCache
HandlerCacheRLock(h) ==
  /\ ~panicked
  /\ lk.pc[h] = "checked"
  /\ lk.cacheW = NoHandler /\ ~CacheWriterWaiting
  /\ lk' = [lk EXCEPT !.cacheR = @ \cup {h}, !.pc[h] = "cacheRead"]
  /\ UNCHANGED <<cfgVars, tarVars, cacheVars, fileVars, srcVars, chanVars, loadErr, budget,
                 wk, handlerVars>>

\* cacheMux.RUnlock(); a hit or an excluded address ends the request, any
\* other miss goes on to GetReader()
HandlerCacheRUnlock(h) ==
  /\ ~panicked
  /\ lk.pc[h] = "cacheRead"
  /\ \E next \in {"idle", "miss"} :
       lk' = [lk EXCEPT !.cacheR = @ \ {h}, !.pc[h] = next]
  /\ UNCHANGED <<cfgVars, tarVars, cacheVars, fileVars, srcVars, chanVars, loadErr, budget,
                 wk, handlerVars>>

\* .Lookup(ip, &record), no lock held: an error ends the request with 500,
\* otherwise cacheMux.Lock() is called
HandlerLookupUnlocked(h) ==
  /\ ~panicked
  /\ lk.pc[h] = "lookup"
  /\ \E next \in {"idle", "lockCache"} :
       lk' = [lk EXCEPT !.pc[h] = next]
  /\ UNCHANGED <<cfgVars, tarVars, cacheVars, fileVars, srcVars, chanVars, loadErr, budget,
                 wk, handlerVars>>

\* cacheMux.Lock() returns: no reader and no writer holds the lock
HandlerCacheLock(h) ==
  /\ ~panicked
  /\ lk.pc[h] = "lockCache"
  /\ lk.cacheW = NoHandler /\ lk.cacheR = {}
  /\ lk' = [lk EXCEPT !.cacheW = h, !.pc[h] = "store"]
  /\ UNCHANGED <<cfgVars, tarVars, cacheVars, fileVars, srcVars, chanVars, loadErr, budget,
                 wk, handlerVars>>

\* geoCache[ip] = entry; cacheMux.Unlock(); serveVerdict
HandlerCacheUnlock(h) ==
  /\ ~panicked
  /\ lk.pc[h] = "store"
  /\ lk' = [lk EXCEPT !.cacheW = NoHandler, !.pc[h] = "idle"]
  /\ UNCHANGED <<cfgVars, tarVars, cacheVars, fileVars, srcVars, chanVars, loadErr, budget,
                 wk, handlerVars>>

\* clearCachePeriodically, a tick: cacheMux.Lock() of package main, a mutex
\* no other goroutine uses
EvictorLock ==
  /\ ~panicked
  /\ lk.evpc = "wait" /\ ~lk.mainW
  /\ lk' = [lk EXCEPT !.evpc = "clearing", !.mainW = TRUE]
  /\ UNCHANGED <<cfgVars, tarVars, cacheVars, fileVars, srcVars, chanVars, loadErr, budget,
                 wk, handlerVars>>

\* geoCache = make(...); cacheMux.Unlock()
EvictorUnlock ==
  /\ ~panicked
  /\ lk.evpc = "clearing"
  /\ lk' = [lk EXCEPT !.evpc = "wait", !.mainW = FALSE]
  /\ UNCHANGED <<cfgVars, tarVars, cacheVars, fileVars, srcVars, chanVars, loadErr, budget,
                 wk, handlerVars>>

\* main with a RemoteFetcher: fetch cycles that overlap (fetchWithRetry, as
\* the background loop and Reload() both call it), two request handlers and
\* the evictor
InitLocks ==
  /\ kind = "remote"
  /\ maxRetries = 1
  /\ budget = MaxLockFetches
  /\ dbFile = Absent
  /\ allowedCodes = {"US"}
  /\ requests = 0
  /\ Constructed

NextLocks ==
  \/ Reload
  \/ \E w \in Workers : BeginAttempt(w)
  \/ \E w \in Workers : Exhausted(w)
  \/ \E w \in Workers : Download(w)
  \/ \E w \in Workers : Wake(w)
  \/ \E w \in Workers : LockAndClosePrevious(w)
  \/ \E w \in Workers : ValidateAndInstall(w)
  \/ \E w \in Workers : Return(w)
  \/ \E h \in Handlers : HandlerRLock(h)
  \/ \E h \in Handlers : HandlerRUnlock(h)
  \/ \E h \in Handlers : HandlerCacheRLock(h)
  \/ \E h \in Handlers : HandlerCacheRUnlock(h)
  \/ \E h \in Handlers : HandlerLookupUnlocked(h)
  \/ \E h \in Handlers : HandlerCacheLock(h)
  \/ \E h \in Handlers : HandlerCacheUnlock(h)
  \/ EvictorLock
  \/ EvictorUnlock

SpecLocks == InitLocks /\ [][NextLocks]_vars

\* ----------------------------------------------------------------- claims

\* a fetch attempt of worker w has just failed: fetch() returned an error
\* and the backoff sleep has begun
AttemptFailed(w) == wk[w].pc = "sleep"

\* a fetchWithRetry call of worker w has returned and its result is known
CycleReturned(w) == wk[w].pc = "returned"

\* the done channel Stop() was last given is closed
StopSignalled == done /= NilChan /\ done \in chClosed

\* C1: a failed fetch attempt (any of the categories 1-6) leaves IsReady()
\* and GetReader() as they were, and it has not closed the reader that
\* GetReader() returns.
FailForward ==
  [][\A w \in Workers :
       (~AttemptFailed(w) /\ AttemptFailed(w)')
         => /\ GetReader' = GetReader
            /\ IsReady' = IsReady
            /\ GetReader' /= NilReader => wk'[w].prevClosed /= GetReader']_vars

\* C2: in updateReaderState the previous reader is not closed while the new
\* reader has yet to pass its sentinel lookup; after a successful swap the
\* previous reader has been closed once and the new one is current.
AtomicSwap ==
  \A w \in Workers :
    /\ wk[w].pc = "validate" => wk[w].prevClosed = NilReader
    /\ (CycleReturned(w) /\ wk[w].result = NoErr /\ wk[w].new /= NilReader)
         => /\ wk[w].new \in validated
            /\ wk[w].prevClosed /= NilReader => closed[wk[w].prevClosed] = 1

\* C3: whenever IsReady() is or has been true the reader is not nil: the
\* handler that saw IsReady() true gets a non-nil reader from GetReader(),
\* and a ready flag without a reader is reported not ready.
ReadyImpliesReader ==
  /\ IsReady => GetReader /= NilReader
  /\ ready /\ reader = NilReader => ~IsReady
  /\ hpc = "checked" => GetReader /= NilReader
  /\ hpc = "got" => held /= NilReader

\* C3 witness: the handler holds a reader it is about to look up in while a
\* fetch attempt holds the write lock, after Stop() was called
ReadyImpliesReaderWitness ==
  /\ hpc = "got"
  /\ held /= NilReader
  /\ mutex /= NoWorker
  /\ StopSignalled

\* C4: the reader GetReader() returns, and the one a handler obtained from
\* it, has passed the sentinel lookup; a reader that an attempt is still
\* constructing or validating is never the current one.
GetReaderValidated ==
  kind = "remote" =>
    /\ GetReader /= NilReader => GetReader \in validated
    /\ hpc = "got" /\ held /= NilReader => held \in validated
    /\ \A w \in Workers :
         wk[w].pc \in {"swap", "validate"} => wk[w].new \notin {GetReader, held}

\* C4 witness: a handler has obtained the previous reader while an attempt
\* holds a new reader that has not been validated
GetReaderValidatedWitness ==
  /\ kind = "remote"
  /\ hpc = "got"
  /\ held \in validated
  /\ \E w \in Workers : wk[w].pc = "validate" /\ ~lookupOk[wk[w].new]

\* C5: Stop() called repeatedly, started or not, never panics and returns no
\* error when there is no reader to close.
IdempotentStop ==
  /\ ~panicked
  /\ stopErr = ErrClose => reader /= NilReader

\* C6: once Stop() has closed the done channel, the background loop begins
\* no ticker-triggered cycle that makes an attempt and no further retry
\* attempt in the cycle it is in.
NoAttemptAfterStop ==
  [][\A w \in Workers :
       (StopSignalled /\ wk[w].role = "loop")
         => /\ ~(/\ wk[w].pc = "select"
                 /\ wk'[w].pc = "cycle"
                 /\ MoreAttempts(0, maxRetries))
            /\ ~(/\ wk[w].pc = "cycle"
                 /\ wk[w].i >= 1
                 /\ wk'[w].pc = "fetch")]_vars

\* C7: fetchWithRetry makes at most maxRetries attempts and none after a
\* success; a call whose last attempt failed made maxRetries attempts and
\* returns "max retries exceeded" wrapping that attempt's error; a call
\* whose last attempt succeeded returns nil.
RetryExhaustion ==
  \A w \in Workers :
    LET n == Len(wk[w].log)
    IN /\ n <= maxRetries
       /\ \A k \in 1..n : wk[w].log[k] = NoErr => k = n /\ CycleReturned(w)
       /\ (CycleReturned(w) /\ n > 0 /\ wk[w].log[n] /= NoErr)
            => /\ n = maxRetries
               /\ wk[w].err /= NoErr
               /\ Outcome(wk[w].err) = wk[w].log[n]
               /\ wk[w].result = "max retries exceeded: " \o wk[w].err
       /\ (CycleReturned(w) /\ n > 0 /\ wk[w].log[n] = NoErr)
            => wk[w].result = NoErr

\* C7 witness: maxRetries - 1 failures, then a success on the last attempt
RetryExhaustionWitness ==
  \E w \in Workers :
    /\ CycleReturned(w)
    /\ maxRetries = 3
    /\ Len(wk[w].log) = 3
    /\ wk[w].log[3] = NoErr

\* three failed download requests open the cycle's history
ThreeBadResponses(w) ==
  /\ Len(wk[w].log) >= 3
  /\ \A k \in 1..3 : wk[w].log[k] = ErrTransport

\* C8 as stated: with maxRetries = 3, three bad responses and then a good
\* one: the call returns nil and the source is ready.
ScenarioB ==
  \A w \in Workers :
    (maxRetries = 3 /\ CycleReturned(w) /\ ThreeBadResponses(w))
      => wk[w].result = NoErr /\ IsReady

\* C8 amended: with maxRetries = 3, two bad responses and then a good one:
\* the call returns nil on its third attempt and the source is ready; three
\* bad responses end the call with "max retries exceeded", whatever the
\* server would have answered next.
ScenarioBAmended ==
  \A w \in Workers :
    (maxRetries = 3 /\ CycleReturned(w))
      => /\ wk[w].log = <<ErrTransport, ErrTransport, NoErr>>
              => wk[w].result = NoErr /\ IsReady
         /\ ThreeBadResponses(w)
              => /\ Len(wk[w].log) = 3
                 /\ wk[w].result = "max retries exceeded: " \o ErrTransport

\* C8 witness: the call that succeeds on its third attempt
ScenarioBAmendedWitness ==
  \E w \in Workers :
    /\ maxRetries = 3
    /\ CycleReturned(w)
    /\ wk[w].log = <<ErrTransport, ErrTransport, NoErr>>

\* C9: a fetchWithRetry (Reload) call that returns nil made an attempt that
\* succeeded, and the source is ready.
NilMeansFetched ==
  \A w \in Workers :
    (CycleReturned(w) /\ wk[w].result = NoErr)
      => /\ \E k \in 1..Len(wk[w].log) : wk[w].log[k] = NoErr
         /\ IsReady

\* C10: the k-th backoff sleep of a cycle lasts BaseBackoff * k, and the
\* sleeps of a cycle grow strictly.
BackoffGrowth ==
  \A w \in Workers :
    \A k \in 1..Len(wk[w].delays) :
      /\ wk[w].delays[k] = BaseBackoff * k
      /\ k > 1 => wk[w].delays[k] > wk[w].delays[k - 1]

\* C10 witness: a cycle in its third backoff sleep
BackoffGrowthWitness ==
  \E w \in Workers : wk[w].pc = "sleep" /\ Len(wk[w].delays) = 3

\* C11: in file-backed mode a fetch attempt that failed has left the file at
\* DBPath with the content it had before the attempt, and no .tmp or
\* .backup sibling; an attempt that succeeded has installed its reader and
\* put its download at DBPath.
AllOrNothing ==
  \A w \in Workers :
    /\ AttemptFailed(w)
         => /\ dbFile = dbBefore[w]
            /\ tmpFile = Absent
            /\ backupFile = Absent
    /\ (CycleReturned(w) /\ wk[w].result = NoErr /\ wk[w].new /= NilReader)
         => /\ reader = wk[w].new
            /\ dbFile = Payload(budget)
            /\ tmpFile = Absent
            /\ backupFile = Absent

\* worker slot w runs a background loop (periodicFetch)
IsLoop(w) == wk[w].role = "loop"

\* C12: the goroutine Start() spawns begins with a fetch cycle, not with the
\* wait; whatever a cycle returns, "max retries exceeded" included, the loop
\* goes on to its select; it leaves the select only for one new cycle (a
\* tick) or, on a closed done channel, for good; a cycle of the loop whose
\* attempt succeeded leaves the source ready.
PeriodicRefresh ==
  [][\A w \in Workers :
       /\ (~IsLoop(w) /\ IsLoop(w)')
            => wk'[w].pc = "cycle" /\ wk'[w].i = 0 /\ wk'[w].log = <<>>
       /\ (IsLoop(w) /\ CycleReturned(w) /\ wk'[w] /= wk[w])
            => /\ IsLoop(w)' /\ wk'[w].pc = "select"
               /\ wk[w].log /= <<>> /\ wk[w].log[Len(wk[w].log)] = NoErr
                    => IsReady /\ wk[w].result = NoErr
       /\ (IsLoop(w) /\ wk[w].pc = "select" /\ wk'[w] /= wk[w])
            => \/ /\ IsLoop(w)' /\ wk'[w].pc = "cycle" /\ wk'[w].i = 0
                  /\ wk'[w].log = <<>>
               \/ ~IsLoop(w)' /\ wk[w].ch \in chClosed]_vars

\* C12 witness: the only loop, allowed one attempt a cycle, has spent two
\* attempts and built one reader: its first cycle ended in "max retries
\* exceeded", a later cycle succeeded and the source is ready
PeriodicRefreshWitness ==
  \E w \in Workers :
    /\ IsLoop(w) /\ CycleReturned(w)
    /\ done = 1 /\ maxRetries = 1
    /\ budget = MaxFetches - 2 /\ nReaders = 1
    /\ wk[w].result = NoErr /\ wk[w].log = <<NoErr>>
    /\ IsReady

\* C13: at most one background loop runs for a RemoteFetcher, and a loop
\* waiting in its select waits on the channel the latest Stop() closed.
SingleLoop ==
  /\ Cardinality({w \in Workers : IsLoop(w)}) <= 1
  /\ \A w \in Workers :
       (IsLoop(w) /\ wk[w].pc = "select" /\ StopSignalled) => wk[w].ch \in chClosed

\* no fetch attempt is in flight: every worker slot is free or a loop waiting
\* in its select
NoAttemptInFlight == \A w \in Workers : wk[w].pc \in {"free", "select"}

\* C14: when Stop() returns with no fetch attempt in flight, the source's
\* reader, if it has one, has been closed.  A Stop() of the RemoteFetcher is
\* the step that closes the done channel, a Stop() of the DiskLoader the
\* step that closes the reader and keeps it.
StopReleasesReader ==
  [][(/\ NoAttemptInFlight
      /\ \/ kind = "remote" /\ chClosed' /= chClosed
         \/ kind = "disk" /\ closed' /= closed /\ reader' = reader)
       => (reader' = NilReader \/ closed'[reader'] >= 1)]_vars

\* the calls of a request that ends in a cache hit, and of one that has
\* looked the address up in the reader
HitSteps == <<"IsReady", "cache", "CacheHits.Inc">>

LookupSteps == <<"IsReady", "cache", "isExcluded", "GetReader", "Lookup">>

\* C15: a run of the evictor leaves the cache the handler reads empty and
\* adds to the eviction counter the number of entries that cache held
\* just before.
CacheEviction ==
  [][clears' /= clears
       => /\ DOMAIN geoCache' = {}
          /\ cacheEvictions' = cacheEvictions + Cardinality(DOMAIN geoCache)]_vars

\* C16: every entry in the cache the handler reads was stored after the
\* last run of the evictor: no entry outlives a run.
BoundedStaleness ==
  \A ip \in DOMAIN geoCache : geoCache[ip].at = clears

\* C17: a step of a request changes the cache only by storing the entry of
\* its own address, not excluded, after a cache miss and a successful
\* Lookup, and it removes nothing; a request answered 503, 400, 500, from
\* the cache or as LAN leaves the cache as it was.
CacheWrittenOnlyOnMiss ==
  [][rq' /= rq
       => /\ geoCache' /= geoCache
               => /\ rq.pc = "store" /\ rq.steps = LookupSteps
                  /\ rq.wasReady /\ rq.ip /= NoIP /\ ~IsExcluded(rq.ip)
                  /\ DOMAIN geoCache' = DOMAIN geoCache \cup {rq.ip}
                  /\ \A k \in DOMAIN geoCache \ {rq.ip} : geoCache'[k] = geoCache[k]
          /\ (\/ rq'.status \in {503, 400, 500}
              \/ rq'.country = "LAN"
              \/ rq'.steps = HitSteps)
               => geoCache' = geoCache]_vars

\* C17 witness: a request whose Lookup failed has been answered 500 while
\* the cache holds the entry of an earlier request and none for this one
CacheWrittenOnlyOnMissWitness ==
  /\ rq.pc = "done" /\ rq.status = 500
  /\ DOMAIN geoCache /= {}
  /\ rq.ip \notin DOMAIN geoCache

\* C18: a request that stored an entry looked up an address that is not
\* excluded, upper-cased the code the reader returned, answered 200 exactly
\* when that code is in the allow-list and stored this verdict and this
\* code; every cache entry holds an upper-cased code and the verdict the
\* allow-list gives it.
VerdictFollowsAllowList ==
  /\ \A ip \in DOMAIN geoCache :
       /\ geoCache[ip].country = ToUpper(geoCache[ip].country)
       /\ geoCache[ip].allowed = (geoCache[ip].country \in allowedCodes)
       /\ ~IsExcluded(ip)
  /\ (rq.pc = "done" /\ rq.steps = Append(LookupSteps, "store"))
       => /\ rq.iso = ToUpper(rq.code)
          /\ rq.status = (IF ToUpper(rq.code) \in allowedCodes THEN 200 ELSE 403)
          /\ rq.status = 200 => rq.country = ToUpper(rq.code)
          /\ geoCache[rq.ip].country = ToUpper(rq.code)
          /\ geoCache[rq.ip].allowed = (rq.status = 200)

\* C18 witness: the reader returned "us", the request was allowed as US and
\* the cache also holds a denied entry
VerdictFollowsAllowListWitness ==
  /\ rq.pc = "done" /\ rq.code = "us" /\ rq.status = 200
  /\ \E ip \in DOMAIN geoCache : ~geoCache[ip].allowed

\* C19: a request that finds its address in the cache answers at once with
\* the entry's verdict (200 and X-Country, or 403), having called neither
\* GetReader() nor Lookup, and adds one to the cache-hit counter; a request
\* calls isExcluded only directly after it has read the cache.
CacheHitServed ==
  [][/\ (rq.pc = "cache" /\ rq.ip \in DOMAIN geoCache /\ rq' /= rq)
         => /\ rq'.pc = "done"
            /\ rq'.status = (IF geoCache[rq.ip].allowed THEN 200 ELSE 403)
            /\ geoCache[rq.ip].allowed => rq'.country = geoCache[rq.ip].country
            /\ rq'.steps = HitSteps
            /\ cacheHits' = cacheHits + 1
            /\ held' = held
     /\ cacheHits' /= cacheHits => rq'.steps = HitSteps /\ rq.steps /= HitSteps
     /\ \A i \in 1..Len(rq'.steps) :
          rq'.steps[i] = "isExcluded" => i > 1 /\ rq'.steps[i - 1] = "cache"]_vars

\* C19 witness: a second cache hit, for a denied address
CacheHitServedWitness ==
  /\ rq.pc = "done" /\ rq.steps = HitSteps
  /\ rq.status = 403
  /\ cacheHits = 2

\* C20: a request that found IsReady() false has been answered 503 and has
\* called nothing else: it read neither the cache nor the reader; a request
\* answered 200 or 403 found the source ready.
NotReadyUnavailable ==
  /\ (rq.pc \notin {"none", "ready"} /\ ~rq.wasReady)
       => /\ rq.pc = "done" /\ rq.status = 503
          /\ rq.steps = <<"IsReady">>
          /\ held = NilReader
  /\ rq.status \in {200, 403} => rq.wasReady

\* C20 witness: a request answered 503 after the only fetch cycle failed
NotReadyUnavailableWitness ==
  /\ rq.pc = "done" /\ rq.status = 503
  /\ ~IsReady
  /\ budget = 0 /\ nReaders = 0
  /\ \E w \in Workers : IsLoop(w) /\ wk[w].pc = "select"

\* C21: a DiskLoader Start() or Reload() that returns an error leaves the
\* reader, the ready flag and every reader's Close count as they were; a
\* loader that has never opened a database is not ready and has no reader.
DiskFailurePolicy ==
  [][kind = "disk"
       => /\ (loadErr' \in DiskLoadErrors /\ loadErr' /= loadErr)
               => /\ reader' = reader /\ ready' = ready
                  /\ closed' = closed /\ nReaders' = nReaders
                  /\ IsReady' = IsReady /\ GetReader' = GetReader
          /\ nReaders = 0 => ~IsReady /\ GetReader = NilReader]_vars

\* C21 witness: a Reload() of a ready loader has failed; the reader
\* installed before is current, not closed, and the loader is ready
DiskFailurePolicyWitness ==
  /\ kind = "disk"
  /\ loadErr \in DiskLoadErrors
  /\ IsReady /\ GetReader /= NilReader
  /\ closed[GetReader] = 0

\* C22: the reader DiskLoader.GetReader() returns is one Close has not been
\* called on.
DiskReaderOpen ==
  (kind = "disk" /\ GetReader /= NilReader) => closed[GetReader] = 0

\* C23: a fetch attempt whose Close of the previous reader returned an
\* error and whose new reader passes the sentinel lookup succeeds:
\* updateReaderState installs the new reader, sets ready and returns nil.
CloseErrorIgnored ==
  \A w \in Workers :
    (wk[w].closeErr = ErrClose /\ wk[w].pc /= "validate" /\ lookupOk[wk[w].new])
      => /\ CycleReturned(w) /\ wk[w].result = NoErr /\ wk[w].err = NoErr
         /\ wk[w].new \in validated
         /\ reader = wk[w].new /\ ready /\ IsReady

\* C23 witness: the second Reload() has swapped readers although Close of
\* the first reader returned an error
CloseErrorIgnoredWitness ==
  \E w \in Workers :
    /\ CycleReturned(w) /\ wk[w].closeErr = ErrClose
    /\ wk[w].prevClosed = 1 /\ reader = 2 /\ IsReady

\* C24: a new reader whose sentinel lookup fails is never the current
\* reader and never counts as validated; once updateReaderState has
\* rejected it, it has been closed exactly once and the attempt has failed
\* with "database validation failed", which the retry loop counts as a
\* failed attempt.
RejectedReaderDiscarded ==
  kind = "remote" =>
    /\ \A r \in 1..nReaders :
         ~lookupOk[r] => r /= reader /\ r \notin validated /\ closed[r] <= 1
    /\ \A w \in Workers :
         (wk[w].new /= NilReader /\ ~lookupOk[wk[w].new]
          /\ wk[w].pc \notin {"swap", "validate"})
           => /\ closed[wk[w].new] = 1
              /\ wk[w].err = ErrValidation
              /\ wk[w].log /= <<>> /\ wk[w].log[Len(wk[w].log)] = Outcome(ErrValidation)
              /\ wk[w].pc \in {"sleep", "cycle", "returned"}
              /\ CycleReturned(w) => wk[w].result = Wrap(ErrValidation, "max retries exceeded")

\* C24 witness: the current reader is still the one installed earlier after
\* an attempt whose new reader failed the sentinel lookup
RejectedReaderDiscardedWitness ==
  \E w \in Workers :
    /\ AttemptFailed(w) /\ wk[w].err = ErrValidation
    /\ closed[wk[w].new] = 1
    /\ reader /= NilReader /\ reader /= wk[w].new

\* C25: a fetch attempt whose payload has maxDBSize + 1 bytes or more fails
\* with "database too large", builds no reader and changes nothing of the
\* source; a payload of maxDBSize bytes or fewer does not fail with that
\* error and goes on to the construction of the reader.
SizeBoundary ==
  [][\A w \in Workers :
       (wk[w].pc = "fetch" /\ wk'[w].pc /= "fetch")
         => /\ wk'[w].size >= maxDBSize + 1
                 => /\ AttemptFailed(w)' /\ wk'[w].err = ErrSize
                    /\ wk'[w].new = NilReader /\ nReaders' = nReaders
                    /\ reader' = reader /\ ready' = ready /\ closed' = closed
                    /\ validated' = validated
            /\ wk'[w].size \in 1..maxDBSize
                 => \/ wk'[w].pc = "swap" /\ wk'[w].new = nReaders'
                    \/ AttemptFailed(w)' /\ wk'[w].err = ErrConstruct
            /\ (AttemptFailed(w)' /\ wk'[w].err = ErrSize)
                 => wk'[w].size > maxDBSize]_vars

\* C25 witness: an attempt of a ready source has failed on a payload of
\* exactly maxDBSize + 1 bytes
SizeBoundaryWitness ==
  \E w \in Workers :
    /\ AttemptFailed(w) /\ wk[w].err = ErrSize
    /\ wk[w].size = maxDBSize + 1
    /\ IsReady /\ closed[reader] = 0

\* ExtractFileFromTar has returned
Extracted == tarResult /= NoTarResult

\* the entries a scan for TargetName may pick: regular files with a
\* matching name (C26), and those of them whose name has no ".."
Matching == {i \in 1..Len(archive.entries) :
               /\ archive.entries[i].Typeflag = TypeReg
               /\ Contains(archive.entries[i].Name, TargetName)}
Selectable == {i \in Matching : ~Contains(archive.entries[i].Name, DotDot)}
First(S) == CHOOSE i \in S : \A j \in S : i <= j

TraversalNeverSelected ==
  Extracted =>
    /\ tarResult.entry /= 0 => ~Contains(archive.entries[tarResult.entry].Name, DotDot)
    /\ (archive.tail = "EOF"
          /\ \A i \in Matching : Contains(archive.entries[i].Name, DotDot))
         => /\ tarResult.err = ErrNotInArchive /\ tarResult.entry = 0

\* C27 witness: the only matching entry has ".." in its name and the
\* scan ended with the not-found error
TraversalNeverSelectedWitness ==
  /\ Extracted /\ Matching /= {} /\ Selectable = {}
  /\ archive.tail = "EOF"
  /\ tarResult.err = ErrNotInArchive

\* C28: in file-backed mode the file at DBPath, when there is one, is a
\* whole database - the previous one or a downloaded one - and so is the
\* file at DBPath + ".backup"; a partly written file is only ever found at
\* DBPath + ".tmp".
OnlyWholeFilesAtTarget ==
  /\ dbFile /= Truncated
  /\ backupFile /= Truncated

\* AtomicReplaceFile, called by worker w, returns nil in this step
ReplaceReturnsNil(w) == wk[w].pc = "rename" /\ wk'[w].pc = "swap"

\* os.Rename(tmpPath, targetPath) of worker w's AtomicReplaceFile fails in
\* this step
ReplaceRenameFails(w) == wk[w].pc = "rename" /\ AttemptFailed(w)'

\* C29: when AtomicReplaceFile returns nil, the target path holds what the
\* temporary file held, and neither the temporary path nor the ".backup"
\* path has a file.
ReplaceSuccessPostState ==
  [][\A w \in Workers :
       ReplaceReturnsNil(w)
         => /\ dbFile' = tmpFile /\ dbFile' /= Absent
            /\ tmpFile' = Absent
            /\ backupFile' = Absent]_vars

NoUseAfterClose ==
  (hpc = "got" /\ held /= NilReader) => closed[held] = 0

\* C35: Close is called at most once on each reader.
ClosedAtMostOnce ==
  \A r \in 1..nReaders : closed[r] <= 1

\* C38: a cycle whose N permitted attempts have all failed has slept N - 1
\* times when it returns.
SleepsBetweenAttemptsOnly ==
  \A w \in Workers :
    (CycleReturned(w) /\ wk[w].result /= NoErr /\ maxRetries >= 1)
      => /\ Len(wk[w].log) = maxRetries
         /\ Len(wk[w].delays) = maxRetries - 1

\* C40: while AtomicReplaceFile runs on a target that had a file when it was
\* called, the target path has a file.
TargetNeverMissing ==
  \A w \in Workers :
    (wk[w].pc \in {"backup", "rename"} /\ dbBefore[w] /= Absent)
      => dbFile /= Absent

\* C36: once IsReady() is true it stays true, and a reader field that is
\* not nil is never made nil, whatever the step: a failed attempt, a failed
\* Reload, Stop, another Start.
ReadinessMonotonic ==
  [][/\ IsReady => IsReady'
     /\ reader /= NilReader => reader' /= NilReader]_vars

\* C36 witness: a ready RemoteFetcher after Stop() closed the done channel
\* and an attempt failed at the sentinel lookup
ReadinessMonotonicWitness ==
  /\ kind = "remote" /\ IsReady /\ StopSignalled
  /\ \E w \in Workers : AttemptFailed(w) /\ wk[w].err = ErrValidation

\* a fetch() call of worker w is running
InFlight(w) ==
  wk[w].pc \in {"fetch", "create", "copy", "open", "backup", "rename", "swap", "validate"}

\* the readers constructed and not closed
OpenReaders == {r \in 1..nReaders : closed[r] = 0}

\* C37: every reader that is open is the current reader or the new reader
\* of a fetch attempt in flight, so the open readers are at most the current
\* one plus one per attempt in flight.
NoReaderLeak ==
  /\ \A r \in OpenReaders :
       \/ r = reader
       \/ \E w \in Workers : InFlight(w) /\ wk[w].new = r
  /\ Cardinality(OpenReaders)
       <= (IF reader \in OpenReaders THEN 1 ELSE 0)
            + Cardinality({w \in Workers : InFlight(w)})

\* C37 witness: an attempt's reader was closed when the rename onto DBPath
\* failed, while the current reader, installed by the other cycle, is open
NoReaderLeakWitness ==
  \E w \in Workers :
    /\ AttemptFailed(w) /\ wk[w].err = ErrRename
    /\ wk[w].new /= NilReader /\ closed[wk[w].new] = 1
    /\ reader /= NilReader /\ reader /= wk[w].new /\ closed[reader] = 0

\* every fetch cycle has returned
AllCyclesOver == \A w \in Workers : wk[w].pc \in {"free", "returned"}

\* C34: with overlapping fetch cycles in file-backed mode, the file the new
\* reader of an attempt was opened on is not truncated or written by
\* another attempt, and when all cycles are over the file at DBPath is a
\* whole database and the current reader a validated one.
NoInterference ==
  /\ \A w \in Workers : ~wk[w].rewritten
  /\ AllCyclesOver
       => /\ dbFile /= Truncated
          /\ reader /= NilReader => reader \in validated

\* a handler waits in r.mutex.RLock()
WaitsForSource(h) ==
  /\ lk.pc[h] \in {"idle", "miss"}
  /\ ~ENABLED HandlerRLock(h)

\* C31: the source's write lock is held by a worker only inside
\* updateReaderState: not while it downloads and builds a reader, not while
\* it sleeps in backoff, not after its cycle has returned; and an IsReady()
\* or GetReader() call has to wait only while some worker is inside
\* updateReaderState.
LockHeldOnlyInSwap ==
  /\ \A w \in Workers :
       /\ mutex = w => wk[w].pc = "validate"
       /\ wk[w].pc = "validate" => mutex = w
  /\ mutex /= NoWorker => mutex \in Workers
  /\ \A h \in Handlers :
       WaitsForSource(h) => \E w \in Workers : wk[w].pc \in {"swap", "validate"}

\* C31 witness: a handler is inside GetReader() with the read lock held
\* while a worker of a later cycle is in its fetch
LockHeldOnlyInSwapWitness ==
  /\ \E h \in Handlers : lk.pc[h] = "getReader" /\ h \in lk.srcR
  /\ \E w \in Workers : wk[w].pc = "fetch"
  /\ IsReady

\* the locks handler h holds
HolderOfSource(h) == h \in lk.srcR
HolderOfCache(h) == h \in lk.cacheR \/ lk.cacheW = h

\* some step that takes or releases a lock, or moves a worker on, can be taken
SomeoneCanMove ==
  \/ \E h \in Handlers : ENABLED HandlerRLock(h) \/ ENABLED HandlerRUnlock(h)
  \/ \E h \in Handlers : ENABLED HandlerCacheRLock(h) \/ ENABLED HandlerCacheRUnlock(h)
  \/ \E h \in Handlers : ENABLED HandlerCacheLock(h) \/ ENABLED HandlerCacheUnlock(h)
  \/ \E h \in Handlers : ENABLED HandlerLookupUnlocked(h)
  \/ \E w \in Workers : ENABLED LockAndClosePrevious(w) \/ ENABLED ValidateAndInstall(w)
  \/ ENABLED EvictorLock \/ ENABLED EvictorUnlock

\* C32: nobody holds the source's lock and a cache lock at once; a handler
\* between requests, a worker outside updateReaderState and the evictor
\* between ticks hold no lock; whoever holds a lock can take the step that
\* releases it; and in no state is every handler, worker and evictor unable
\* to move.
DeadlockFree ==
  /\ \A h \in Handlers :
       /\ ~(HolderOfSource(h) /\ HolderOfCache(h))
       /\ lk.pc[h] \in {"idle", "checked", "miss", "lookup", "lockCache"}
            => ~HolderOfSource(h) /\ ~HolderOfCache(h)
       /\ HolderOfSource(h) => ENABLED HandlerRUnlock(h)
       /\ h \in lk.cacheR => ENABLED HandlerCacheRUnlock(h)
       /\ lk.cacheW = h => ENABLED HandlerCacheUnlock(h)
  /\ \A w \in Workers :
       /\ (wk[w].pc /= "validate") => (mutex /= w)
       /\ (mutex = w) => ENABLED ValidateAndInstall(w)
  /\ mutex /= NoWorker => lk.srcR = {}
  /\ lk.cacheW /= NoHandler => lk.cacheR = {}
  /\ lk.evpc = "wait" => ~lk.mainW
  /\ lk.mainW => ENABLED EvictorUnlock
  /\ SomeoneCanMove

\* C32 witness: one handler holds the cache's write lock, the other the
\* source's read lock, the evictor holds its lock and a worker waits in
\* r.mutex.Lock()
DeadlockFreeWitness ==
  /\ \E h, g \in Handlers : lk.cacheW = h /\ g \in lk.srcR
  /\ lk.evpc = "clearing"
  /\ WriterWaiting

\* the background loop in slot w is running and Stop() has closed the
\* channel this loop was given or last found in r.done
StoppedWhileRunning(w) == wk[w].role = "loop" /\ wk[w].ch \in chClosed

\* C39: a background loop that is running when Stop() closes the done
\* channel terminates in the end (or the process has died in a panic).
StoppedLoopTerminates ==
  \A w \in Workers : StoppedWhileRunning(w) ~> (wk[w].role /= "loop" \/ panicked)

====
